---- MODULE Spec2Model ----
(***************************************************************************)
(* Session lifecycle of the WhatsApp HTTP API (src/server.js): the module  *)
(* level session variables, initializeWhatsApp, the client event handlers, *)
(* the relaunch timers and the HTTP handlers that read or change the       *)
(* session.  Node runs one handler at a time, so every action below is one *)
(* handler, or the part of an async handler between two awaits.  The       *)
(* whatsapp-web.js Client is an external library: which events it emits    *)
(* and when its initialize() and destroy() promises settle is the          *)
(* environment, modelled as nondeterministic actions.  A setTimeout        *)
(* callback may run at any time after it was scheduled.                    *)
(***************************************************************************)
EXTENDS Integers, FiniteSets, Sequences, TLC

\* ------------------------------------------------------------------ bounds
MaxPrev == 1        \* replaced clients still starting, or still not destroyed
MaxTimers == 2      \* relaunch timers pending at one time
MaxTicks == 2       \* clock steps in one run
TickMs == 120000    \* length of one clock step, in ms
MaxRestarts == 1    \* /api/restart handlers awaiting destroy() at one time
MaxSends == 1       \* /api/send-message handlers awaiting the client at one time
MaxShutdowns == 1   \* SIGINT/SIGTERM handlers awaiting destroy() at one time
MaxQrWaits == 1     \* part_000: /api/qr timer callbacks waiting on destroy() at one time
MaxLookups == 1     \* /api/number-info and /api/chats handlers awaiting the client at one time

\* --------------------------------------------------------------- constants
QR_TTL_MS == 120000 \* pairing code window

NoClient == 0       \* `let client;` (undefined)
Held == 1           \* client refers to a Client object
NoCode == 0         \* qrCodeData = null
NoTime == -1        \* lastQrTime = null

Codes == {1, 2}

\* Pending setTimeout callbacks by origin: the boot callback of app.listen, a
\* retry scheduled by a failure handler (auth_failure, disconnected, the
\* initialize() rejection, the constructor's catch), the callback of
\* GET /api/qr, the callback of POST /api/restart.
TimerKinds == {"boot", "retry", "qr", "restart"}

\* The delays of the setTimeout calls that lead to initializeWhatsApp, in ms.
Delays ==
    [boot |-> {5000}, retry |-> {15000, 30000, 60000}, qr |-> {3000},
     restart |-> {5000}]

\* The endpoints that only query the client.
LookupKinds == {"number-info", "chats"}

VARIABLES
    client,                     \* NoClient, or Held: the Client object last constructed
    isReady,
    qrCodeData,
    lastQrTime,
    initializationInProgress,
    timers,                     \* pending setTimeout callbacks, by origin
    restartWait,                \* /api/restart handlers suspended at `await client.destroy()`:
                                \*   .held on the held client, .replaced on one replaced since
    sends,                      \* /api/send-message handlers suspended at `await Promise.race(...)`
    shutdownWait,               \* SIGINT/SIGTERM handlers suspended at `await client.destroy()`:
                                \*   .held on the held client, .replaced on one replaced since
    qrWait,                     \* src/unnamed/part_000: /api/qr timer callbacks waiting on
                                \*   `client.destroy().then(...)`: .held / .replaced alike
    lookups,                    \* /api/number-info and /api/chats handlers suspended at
                                \*   their await, by endpoint
    now,                        \* the clock, ms
    proc,                       \* the Node process: "running" | "exited"
    life,                       \* held client: "none" | "live" | "closing" (destroy() called) | "dead"
    cst,                        \* held client: what it can still deliver to its handlers,
                                \*   "new" | "started" | "pairing" | "ready" | "ended"
    init,                       \* held client: its initialize() promise, "idle" | "pending" | "settled"
    listeners,                  \* held client: the handlers are still registered
    prevStarts,                 \* replaced clients whose initialize() promise is pending
    prevLive,                   \* replaced clients whose destruction has not completed
    phase,                      \* history: the lifecycle phase, as last set by a handler
    relaunches,                 \* history: launches made by restart timers and /api/qr timers
    last                        \* history: the last handler run and what it answered

vars == <<client, isReady, qrCodeData, lastQrTime, initializationInProgress,
          timers, restartWait, shutdownWait, qrWait, sends, lookups, now, proc, life,
          cst, init, listeners, prevStarts, prevLive, phase, relaunches, last>>

session == <<client, isReady, qrCodeData, lastQrTime, initializationInProgress>>
library == <<life, cst, init, listeners, prevStarts, prevLive>>

\* ----------------------------------------------------------------- helpers
RECURSIVE SumOver(_, _)
SumOver(f, S) ==
    IF S = {} THEN 0
    ELSE LET x == CHOOSE y \in S : TRUE IN f[x] + SumOver(f, S \ {x})

PendingTimers(t) == SumOver(t, TimerKinds)

setTimeout(t, k) == [t EXCEPT ![k] = @ + 1]

Done(op) ==
    [op |-> op, res |-> "-", ready |-> FALSE, code |-> NoCode, at |-> NoTime,
     age |-> 0, expiresAt |-> NoTime, by |-> "-", made |-> FALSE,
     sentTo |-> NoClient]

\* History of the launches (a Client constructed and started) that timers
\* made, kept while it can still grow.
\* .restart: launches by restart timers since the last restart reset; back to
\*   "none" once no restart timer is pending, "two" once a second one is made.
\* .expiry: launches by /api/qr timers since GET /api/qr last found a held
\*   code expired; "untracked" when a /api/qr timer of an earlier request was
\*   still pending at that time, and once no /api/qr timer is pending.
Bump(n) == IF n = "none" THEN "one" ELSE IF n = "one" THEN "two" ELSE n

Forget(r, t0) ==
    [restart |-> IF t0["restart"] = 0 /\ r.restart # "two" THEN "none" ELSE r.restart,
     expiry |-> IF t0["qr"] = 0 /\ r.expiry # "two" THEN "untracked" ELSE r.expiry]

\* k: the timer whose callback ran; t0: the timers left; launched: whether it
\* constructed and started a client.
CountLaunch(k, t0, launched) ==
    Forget([restart |-> IF launched /\ k = "restart"
                        THEN Bump(relaunches.restart) ELSE relaunches.restart,
            expiry |-> IF launched /\ k = "qr"
                       THEN Bump(relaunches.expiry) ELSE relaunches.expiry], t0)

\* Mutant: the window is never found expired.
qrExpiredAt_Never(t, issued) == FALSE

\* const qrExpired = lastQrTime && (new Date() - lastQrTime) > 120000
qrExpiredAt(t, issued) == issued # NoTime /\ (t - issued) > QR_TTL_MS

\* ------------------------------------------------------------------- Init
Init ==
    /\ client = NoClient
    /\ isReady = FALSE
    /\ qrCodeData = NoCode
    /\ lastQrTime = NoTime
    /\ initializationInProgress = FALSE
    /\ timers = [k \in TimerKinds |-> IF k = "boot" THEN 1 ELSE 0]
    /\ restartWait = [held |-> 0, replaced |-> 0]
    /\ shutdownWait = [held |-> 0, replaced |-> 0]
    /\ qrWait = [held |-> 0, replaced |-> 0]
    /\ proc = "running"
    /\ sends = 0
    /\ lookups = [e \in LookupKinds |-> 0]
    /\ now = 0
    /\ life = "none"
    /\ cst = "new"
    /\ init = "idle"
    /\ listeners = FALSE
    /\ prevStarts = 0
    /\ prevLive = 0
    /\ phase = "Uninitialized"
    /\ relaunches = [restart |-> "none", expiry |-> "untracked"]
    /\ last = Done("listen")

\* --------------------------------------------------- initializeWhatsApp
\* The early return of initializeWhatsApp: nothing but the log line.
SkipLaunch(k, t0) ==
    /\ timers' = t0
    /\ last' = [Done("initializeWhatsApp") EXCEPT !.res = "skipped", !.by = k]
    /\ relaunches' = CountLaunch(k, t0, FALSE)
    /\ UNCHANGED <<session, library, restartWait, shutdownWait, qrWait, sends, lookups, now, proc, phase>>

\* initializeWhatsApp past its guard.  k: the timer that called; t0: the
\* pending timers once that timer is taken off; ok: whether `new Client(...)`
\* returns (TRUE) or throws (FALSE).
Launch(k, t0, ok) ==
    LET \* client.removeAllListeners(); client.destroy() is called, not awaited
        oldLife == IF life = "live" THEN "closing" ELSE life
        oldStarting == IF init = "pending" THEN 1 ELSE 0
        oldLive == IF oldLife = "closing" THEN 1 ELSE 0
    IN  IF ok
        THEN \* the held client is replaced by a new one, which is started
             /\ prevStarts + oldStarting <= MaxPrev
             /\ prevLive + oldLive <= MaxPrev
             /\ restartWait.replaced + restartWait.held <= MaxRestarts
             /\ prevStarts' = prevStarts + oldStarting
             /\ prevLive' = prevLive + oldLive
             /\ restartWait' = [held |-> 0,
                                replaced |-> restartWait.replaced + restartWait.held]
             /\ shutdownWait' = [held |-> 0,
                                 replaced |-> shutdownWait.replaced + shutdownWait.held]
             /\ UNCHANGED qrWait
             /\ client' = Held
             /\ life' = "live"
             /\ listeners' = TRUE
             /\ cst' = "started"
             /\ init' = "pending"
             /\ initializationInProgress' = TRUE
             /\ timers' = t0
             /\ phase' = "Launching"
             /\ relaunches' = CountLaunch(k, t0, TRUE)
             /\ last' = [Done("initializeWhatsApp") EXCEPT
                           !.res = "launched", !.by = k, !.made = TRUE]
             /\ UNCHANGED <<isReady, qrCodeData, lastQrTime, sends, lookups, now, proc>>
        ELSE \* the constructor threw: the catch block
             /\ initializationInProgress' = FALSE
             /\ timers' = setTimeout(t0, "retry")
             /\ life' = oldLife
             /\ listeners' = FALSE
             /\ cst' = IF client = NoClient THEN cst ELSE "ended"
             /\ phase' = "Failed"
             /\ relaunches' = CountLaunch(k, t0, FALSE)
             /\ last' = [Done("initializeWhatsApp") EXCEPT
                           !.res = "create_failed", !.by = k]
             /\ UNCHANGED <<client, isReady, qrCodeData, lastQrTime, restartWait, shutdownWait, qrWait,
                            sends, lookups, now, proc, init, prevStarts, prevLive>>

\* Mutant: the guard on initializationInProgress is missing.
initializeWhatsApp_NoGuard(k, t0, ok) == Launch(k, t0, ok)

initializeWhatsApp(k, t0, ok) ==
    IF initializationInProgress THEN SkipLaunch(k, t0) ELSE Launch(k, t0, ok)

\* A setTimeout callback runs.  Every callback calls initializeWhatsApp();
\* the one scheduled by GET /api/qr first tests the flag itself.
FireTimer(k) ==
    /\ timers[k] > 0
    /\ \E ok \in BOOLEAN :
         LET t0 == [timers EXCEPT ![k] = @ - 1]
         IN  IF k = "qr" /\ initializationInProgress
             THEN /\ timers' = t0
                  /\ last' = [Done("qr timer") EXCEPT !.res = "skipped", !.by = k]
                  /\ relaunches' = CountLaunch(k, t0, FALSE)
                  /\ UNCHANGED <<session, library, restartWait, shutdownWait, qrWait, sends, lookups, now, proc, phase>>
             ELSE initializeWhatsApp(k, t0, ok)

\* ------------------------------------------------------------ clock
Tick ==
    /\ now + TickMs <= MaxTicks * TickMs
    /\ now' = now + TickMs
    /\ UNCHANGED <<session, timers, restartWait, shutdownWait, qrWait, sends, lookups, proc,
                   library, phase, relaunches, last>>

\* ------------------------------------------------- client event handlers
\* The held client delivers an event to its handlers: its browser is up and
\* the handlers are registered.  (A replaced client has had its handlers
\* removed by initializeWhatsApp: its events reach no code of the program.)
Emits == client # NoClient /\ life = "live" /\ listeners

\* Mutant: the issue time is stamped only when no earlier one is held.
OnQr_StaleStamp(qr) ==
    /\ Emits
    /\ cst \in {"started", "pairing"}
    /\ cst' = "pairing"
    /\ qrCodeData' = qr
    /\ lastQrTime' = IF lastQrTime = NoTime THEN now ELSE lastQrTime
    /\ initializationInProgress' = FALSE
    /\ phase' = "AwaitingPairing"
    /\ last' = [Done("qr") EXCEPT !.code = qr, !.at = now]
    /\ UNCHANGED <<client, isReady, timers, restartWait, shutdownWait, qrWait, sends, lookups, now, proc, life, init,
                   listeners, prevStarts, prevLive, relaunches>>

\* client.on('qr', ...)
OnQr(qr) ==
    /\ Emits
    /\ cst \in {"started", "pairing"}
    /\ cst' = "pairing"
    /\ qrCodeData' = qr
    /\ lastQrTime' = now
    /\ initializationInProgress' = FALSE
    /\ phase' = "AwaitingPairing"
    /\ last' = [Done("qr") EXCEPT !.code = qr, !.at = now]
    /\ UNCHANGED <<client, isReady, timers, restartWait, shutdownWait, qrWait, sends, lookups, now, proc, life, init,
                   listeners, prevStarts, prevLive, relaunches>>

\* client.on('ready', ...)
OnReady ==
    /\ Emits
    /\ cst \in {"started", "pairing"}
    /\ cst' = "ready"
    /\ isReady' = TRUE
    /\ qrCodeData' = NoCode
    /\ lastQrTime' = NoTime
    /\ initializationInProgress' = FALSE
    /\ phase' = "Ready"
    /\ last' = Done("ready")
    /\ UNCHANGED <<client, timers, restartWait, shutdownWait, qrWait, sends, lookups, now, proc, life, init,
                   listeners, prevStarts, prevLive, relaunches>>

\* client.on('auth_failure', ...)
OnAuthFailure ==
    /\ Emits
    /\ cst \in {"started", "pairing"}
    /\ PendingTimers(timers) < MaxTimers
    /\ cst' = "ended"
    /\ isReady' = FALSE
    /\ initializationInProgress' = FALSE
    /\ timers' = setTimeout(timers, "retry")
    /\ phase' = "Failed"
    /\ last' = Done("auth_failure")
    /\ UNCHANGED <<client, qrCodeData, lastQrTime, restartWait, shutdownWait, qrWait, sends, lookups, now, proc, life,
                   init, listeners, prevStarts, prevLive, relaunches>>

\* client.on('disconnected', ...)
OnDisconnected ==
    /\ Emits
    /\ cst \in {"pairing", "ready"}
    /\ PendingTimers(timers) < MaxTimers
    /\ cst' = "ended"
    /\ isReady' = FALSE
    /\ qrCodeData' = NoCode
    /\ initializationInProgress' = FALSE
    /\ timers' = setTimeout(timers, "retry")
    /\ phase' = "Failed"
    /\ last' = Done("disconnected")
    /\ UNCHANGED <<client, lastQrTime, restartWait, shutdownWait, qrWait, sends, lookups, now, proc, life, init,
                   listeners, prevStarts, prevLive, relaunches>>

\* client.on('error', ...)
OnError ==
    /\ Emits
    /\ cst \in {"started", "pairing", "ready"}
    /\ initializationInProgress' = FALSE
    /\ last' = Done("error")
    /\ UNCHANGED <<client, isReady, qrCodeData, lastQrTime, timers, restartWait, shutdownWait, qrWait,
                   sends, lookups, now, proc, library, phase, relaunches>>

\* Mutant: the rejection handler starts the next launch itself, without a timer.
InitFailed_RetriesNow ==
    /\ initializationInProgress' = TRUE
    /\ phase' = "Launching"
    /\ UNCHANGED <<client, isReady, qrCodeData, lastQrTime, timers, restartWait,
                   shutdownWait, qrWait, sends, lookups, now, proc, life, cst, listeners, relaunches>>

\* Mutant: the rejection handler schedules no retry.
InitFailed_NoRetry ==
    /\ initializationInProgress' = FALSE
    /\ phase' = "Failed"
    /\ UNCHANGED <<client, isReady, qrCodeData, lastQrTime, timers, restartWait,
                   shutdownWait, qrWait, sends, lookups, now, proc, life, cst, listeners, relaunches>>

\* The .catch(err => ...) on client.initialize()
InitFailed ==
    /\ initializationInProgress' = FALSE
    /\ timers' = setTimeout(timers, "retry")
    /\ phase' = "Failed"
    /\ UNCHANGED <<client, isReady, qrCodeData, lastQrTime, restartWait, shutdownWait, qrWait, sends, lookups,
                   now, proc, life, cst, listeners, relaunches>>

\* The initialize() promise of the held client settles: fulfilled (no handler
\* is attached to that), or rejected.
InitSettled(ok) ==
    /\ init = "pending"
    /\ init' = "settled"
    /\ IF ok
       THEN UNCHANGED <<session, timers, restartWait, shutdownWait, qrWait, sends, lookups, now, proc, life, cst,
                        listeners, phase, relaunches, last>>
       ELSE /\ PendingTimers(timers) < MaxTimers
            /\ InitFailed
            /\ last' = [Done("init_failure") EXCEPT !.by = "held"]
    /\ UNCHANGED <<prevStarts, prevLive>>

\* The initialize() promise of a replaced client settles.
PrevInitSettled(ok) ==
    /\ prevStarts > 0
    /\ prevStarts' = prevStarts - 1
    /\ IF ok
       THEN UNCHANGED <<session, timers, restartWait, shutdownWait, qrWait, sends, lookups, now, proc, life, cst,
                        listeners, phase, relaunches, last>>
       ELSE /\ PendingTimers(timers) < MaxTimers
            /\ InitFailed
            /\ last' = [Done("init_failure") EXCEPT !.by = "replaced"]
    /\ UNCHANGED <<init, prevLive>>

\* The destroy() that initializeWhatsApp called on a client it replaced
\* completes.  (One that fails leaves the client undestroyed for good.)
PrevDestroyed ==
    /\ prevLive > 0
    /\ prevLive' = prevLive - 1
    /\ UNCHANGED <<session, timers, restartWait, shutdownWait, qrWait, sends, lookups, now, proc, life, cst, init,
                   listeners, prevStarts, phase, relaunches, last>>

\* The destroy() that initializeWhatsApp called on the client it still holds
\* (the constructor threw) completes.
HeldDestroyed ==
    /\ life = "closing"
    /\ ~listeners
    /\ restartWait.held = 0
    /\ life' = "dead"
    /\ UNCHANGED <<session, timers, restartWait, shutdownWait, qrWait, sends, lookups, now, proc, cst, init,
                   listeners, prevStarts, prevLive, phase, relaunches, last>>

\* ------------------------------------------------------------ GET /api/qr
GetQr ==
    LET qrExpired == qrExpiredAt(now, lastQrTime)
    IN  IF qrCodeData # NoCode /\ ~qrExpired
        THEN /\ last' = IF lastQrTime = NoTime
                        THEN [Done("GET /api/qr") EXCEPT !.res = "500"]
                        ELSE [Done("GET /api/qr") EXCEPT
                                !.res = "code", !.code = qrCodeData,
                                !.age = now - lastQrTime,
                                !.expiresAt = lastQrTime + QR_TTL_MS]
             /\ UNCHANGED <<session, timers, restartWait, shutdownWait, qrWait, sends, lookups, now, proc, library,
                            phase, relaunches>>
        ELSE IF isReady
        THEN /\ last' = [Done("GET /api/qr") EXCEPT !.res = "ready"]
             /\ UNCHANGED <<session, timers, restartWait, shutdownWait, qrWait, sends, lookups, now, proc, library,
                            phase, relaunches>>
        ELSE /\ last' = [Done("GET /api/qr") EXCEPT
                           !.res = IF qrExpired THEN "expired" ELSE "pending"]
             /\ IF (qrExpired \/ ~initializationInProgress) /\ ~isReady
                THEN /\ PendingTimers(timers) < MaxTimers
                     /\ qrCodeData' = NoCode
                     /\ lastQrTime' = NoTime
                     /\ timers' = setTimeout(timers, "qr")
                     /\ UNCHANGED <<client, isReady, initializationInProgress>>
                ELSE UNCHANGED <<session, timers>>
             /\ relaunches' =
                    IF qrExpired /\ qrCodeData # NoCode
                    THEN [relaunches EXCEPT
                            !.expiry = IF timers["qr"] = 0 THEN "none" ELSE "untracked"]
                    ELSE relaunches
             /\ UNCHANGED <<restartWait, shutdownWait, qrWait, sends, lookups, now, proc, library, phase>>

\* -------------------------------------------------- POST /api/send-message
\* Mutant: the body is validated before the session is looked at.
SendMessage_ValidatesFirst(valid) ==
    IF ~valid
    THEN /\ last' = [Done("POST /api/send-message") EXCEPT !.res = "400"]
         /\ UNCHANGED <<session, timers, restartWait, shutdownWait, qrWait, sends, lookups,
                        now, proc, library, phase, relaunches>>
    ELSE IF ~isReady
    THEN /\ last' = [Done("POST /api/send-message") EXCEPT !.res = "503"]
         /\ UNCHANGED <<session, timers, restartWait, shutdownWait, qrWait, sends, lookups,
                        now, proc, library, phase, relaunches>>
    ELSE /\ sends < MaxSends
         /\ sends' = sends + 1
         /\ UNCHANGED lookups
         /\ last' = [Done("POST /api/send-message") EXCEPT
                       !.res = "sending", !.sentTo = client]
         /\ UNCHANGED <<session, timers, restartWait, shutdownWait, qrWait, now, proc,
                        library, phase, relaunches>>

\* valid: the body carries a number and a message.
SendMessage(valid) ==
    IF ~isReady
    THEN /\ last' = [Done("POST /api/send-message") EXCEPT !.res = "503"]
         /\ UNCHANGED <<session, timers, restartWait, shutdownWait, qrWait, sends, lookups, now, proc, library,
                        phase, relaunches>>
    ELSE IF ~valid
    THEN /\ last' = [Done("POST /api/send-message") EXCEPT !.res = "400"]
         /\ UNCHANGED <<session, timers, restartWait, shutdownWait, qrWait, sends, lookups, now, proc, library,
                        phase, relaunches>>
    ELSE /\ sends < MaxSends
         /\ sends' = sends + 1
         /\ UNCHANGED lookups
         /\ last' = [Done("POST /api/send-message") EXCEPT
                       !.res = "sending", !.sentTo = client]
         /\ UNCHANGED <<session, timers, restartWait, shutdownWait, qrWait, now, proc, library, phase,
                        relaunches>>

\* The fields of a request body: absent, the empty string, or a text.
Absent == "<absent>"
Numbers == {Absent, "", "5491234567890"}
Messages == {Absent, "", "Hola"}

\* !number || !message is false
HasFields(number, message) == ~(number \in {Absent, ""} \/ message \in {Absent, ""})

\* POST /api/send-message with a body of these fields
PostSendMessage(number, message) == SendMessage(HasFields(number, message))

\* Mutant: a failed send marks the session as broken and schedules a relaunch.
SendSettled_ResetsOnFailure(r) ==
    /\ sends > 0
    /\ sends' = sends - 1
    /\ UNCHANGED lookups
    /\ last' = [Done("send-message result") EXCEPT !.res = r]
    /\ IF r = "200" \/ PendingTimers(timers) >= MaxTimers
       THEN UNCHANGED <<session, timers>>
       ELSE /\ isReady' = FALSE
            /\ timers' = setTimeout(timers, "retry")
            /\ UNCHANGED <<client, qrCodeData, lastQrTime, initializationInProgress>>
    /\ UNCHANGED <<restartWait, shutdownWait, qrWait, now, proc, library, phase, relaunches>>

\* Mutant: client.sendMessage is awaited alone, without the 30 s timer.
SendSettled_NoTimeout(r) ==
    /\ r # "timeout"
    /\ sends > 0
    /\ sends' = sends - 1
    /\ UNCHANGED lookups
    /\ last' = [Done("send-message result") EXCEPT !.res = r]
    /\ UNCHANGED <<session, timers, restartWait, shutdownWait, qrWait, now, proc, library, phase,
                   relaunches>>

\* The Promise.race of a suspended send settles: the message was sent
\* ("200"), client.sendMessage failed ("500") or the 30 s timer won ("timeout").
SendSettled(r) ==
    /\ sends > 0
    /\ sends' = sends - 1
    /\ UNCHANGED lookups
    /\ last' = [Done("send-message result") EXCEPT !.res = r]
    /\ UNCHANGED <<session, timers, restartWait, shutdownWait, qrWait, now, proc, library, phase, relaunches>>

\* ------------------------------------------------------ POST /api/restart
\* The statements after `await client.destroy()` (the whole handler when no
\* client is held).
RestartReset ==
    /\ PendingTimers(timers) < MaxTimers
    /\ isReady' = FALSE
    /\ qrCodeData' = NoCode
    /\ lastQrTime' = NoTime
    /\ initializationInProgress' = FALSE
    /\ timers' = setTimeout(timers, "restart")
    /\ phase' = "Uninitialized"
    /\ relaunches' = [relaunches EXCEPT !.restart = "none"]
    /\ last' = [Done("POST /api/restart") EXCEPT !.res = "200"]
    /\ UNCHANGED <<client, sends, lookups, now, proc, init, listeners, prevStarts, prevLive>>

\* The handler up to its await.
Restart ==
    IF client = NoClient
    THEN RestartReset /\ UNCHANGED <<restartWait, shutdownWait, qrWait, life, cst>>
    ELSE /\ restartWait.held + restartWait.replaced < MaxRestarts
         /\ restartWait' = [restartWait EXCEPT !.held = @ + 1]
         /\ UNCHANGED <<shutdownWait, qrWait>>
         /\ life' = IF life = "live" THEN "closing" ELSE life
         /\ last' = [Done("POST /api/restart") EXCEPT !.res = "awaiting destroy"]
         /\ UNCHANGED <<session, timers, sends, lookups, now, proc, cst, init, listeners,
                        prevStarts, prevLive, phase, relaunches>>

\* The destroy() awaited on the held client settles and the handler goes on
\* in the same turn: the browser is closed (ok), or destroy() failed, which
\* is caught and logged, and the client is left as it was.
RestartResumed(ok) ==
    /\ restartWait.held > 0
    /\ restartWait' = [restartWait EXCEPT !.held = @ - 1]
    /\ UNCHANGED <<shutdownWait, qrWait>>
    /\ life' = IF life = "closing" THEN (IF ok THEN "dead" ELSE "live") ELSE life
    /\ cst' = IF life = "closing" /\ ok THEN "ended" ELSE cst
    /\ RestartReset

\* The same for a handler whose client was replaced while it waited.
RestartResumedLate ==
    /\ restartWait.replaced > 0
    /\ restartWait' = [restartWait EXCEPT !.replaced = @ - 1]
    /\ UNCHANGED <<shutdownWait, qrWait>>
    /\ RestartReset
    /\ UNCHANGED <<life, cst>>

\* ------------------------------------------------ read-only endpoints
\* status of GET / and GET /api/status; the first does not look at the age
\* of the code.
StatusOf(hasQR) ==
    IF isReady THEN "ready" ELSE IF hasQR THEN "waiting_for_qr" ELSE "initializing"

\* Mutant: /health reports the service as ready whenever it answers.
GetHealth_AlwaysReady ==
    /\ proc = "running"
    /\ last' = [Done("GET /health") EXCEPT !.res = "healthy", !.ready = TRUE]
    /\ UNCHANGED <<session, timers, restartWait, shutdownWait, qrWait, sends, lookups, now,
                   proc, library, phase, relaunches>>

\* GET /health
GetHealth ==
    /\ proc = "running"
    /\ last' = [Done("GET /health") EXCEPT !.res = "healthy", !.ready = isReady]
    /\ UNCHANGED <<session, timers, restartWait, shutdownWait, qrWait, sends, lookups, now,
                   proc, library, phase, relaunches>>

\* GET /
GetRoot ==
    /\ proc = "running"
    /\ last' = [Done("GET /") EXCEPT !.res = StatusOf(qrCodeData # NoCode)]
    /\ UNCHANGED <<session, timers, restartWait, shutdownWait, qrWait, sends, lookups, now,
                   proc, library, phase, relaunches>>

\* GET /api/status
GetStatus ==
    /\ proc = "running"
    /\ last' = [Done("GET /api/status") EXCEPT
                  !.res = StatusOf(qrCodeData # NoCode /\ ~qrExpiredAt(now, lastQrTime)),
                  !.ready = isReady]
    /\ UNCHANGED <<session, timers, restartWait, shutdownWait, qrWait, sends, lookups, now,
                   proc, library, phase, relaunches>>

\* GET /api/number-info/:number and GET /api/chats up to their await.
Lookup(e) ==
    /\ proc = "running"
    /\ IF ~isReady
       THEN /\ last' = [Done(e) EXCEPT !.res = "503"]
            /\ UNCHANGED lookups
       ELSE /\ SumOver(lookups, LookupKinds) < MaxLookups
            /\ lookups' = [lookups EXCEPT ![e] = @ + 1]
            /\ last' = [Done(e) EXCEPT !.res = "asking", !.sentTo = client]
    /\ UNCHANGED <<session, timers, restartWait, shutdownWait, qrWait, sends, now, proc,
                   library, phase, relaunches>>

\* client.getNumberId / client.getChats settles: the answer is sent (ok), or
\* the rejection is caught and answered with status 500.
LookupSettled(e, ok) ==
    /\ lookups[e] > 0
    /\ lookups' = [lookups EXCEPT ![e] = @ - 1]
    /\ last' = [Done(e) EXCEPT !.res = IF ok THEN "200" ELSE "500"]
    /\ UNCHANGED <<session, timers, restartWait, shutdownWait, qrWait, sends, now, proc,
                   library, phase, relaunches>>

\* ------------------------------------------------ process-level handlers
\* Mutant: no handler is registered, and Node ends the process on an
\* unhandled rejection.
OnUnhandledRejection_Default == proc' = "exited"

\* process.on('unhandledRejection', ...): the reason is logged.
OnUnhandledRejection == proc' = proc

\* A destroy() that initializeWhatsApp called without awaiting it rejects:
\* nothing handles that promise.  (The client stays undestroyed.)
DestroyRejected ==
    /\ proc = "running"
    /\ prevLive > 0 \/ (life = "closing" /\ ~listeners)
    /\ OnUnhandledRejection
    /\ last' = Done("unhandledRejection")
    /\ UNCHANGED <<session, timers, restartWait, shutdownWait, qrWait, sends, lookups, now,
                   library, phase, relaunches>>

\* ------------------------------------------------------ SIGINT / SIGTERM
Signals == {"SIGINT", "SIGTERM"}

\* The process is gone, with its timers, its suspended handlers and its
\* variables.
Gone ==
    /\ proc' = "exited"
    /\ client' = NoClient
    /\ isReady' = FALSE
    /\ qrCodeData' = NoCode
    /\ lastQrTime' = NoTime
    /\ initializationInProgress' = FALSE
    /\ timers' = [k \in TimerKinds |-> 0]
    /\ restartWait' = [held |-> 0, replaced |-> 0]
    /\ shutdownWait' = [held |-> 0, replaced |-> 0]
    /\ qrWait' = [held |-> 0, replaced |-> 0]
    /\ sends' = 0
    /\ lookups' = [e \in LookupKinds |-> 0]
    /\ life' = "none"
    /\ cst' = "new"
    /\ init' = "idle"
    /\ listeners' = FALSE
    /\ prevStarts' = 0
    /\ prevLive' = 0
    /\ phase' = "Uninitialized"
    /\ relaunches' = [restart |-> "none", expiry |-> "untracked"]
    /\ UNCHANGED now

\* process.exit(0) in the handler of sig.  how: what became of the held client.
Exit(sig, how) ==
    /\ Gone
    /\ last' = [Done("exit") EXCEPT !.res = how, !.by = sig]

\* The handler of a signal up to its await (the whole handler when no client
\* is held).
Signal(sig) ==
    /\ proc = "running"
    /\ IF client = NoClient
       THEN Exit(sig, "no client")
       ELSE /\ shutdownWait.held + shutdownWait.replaced < MaxShutdowns
            /\ shutdownWait' = [shutdownWait EXCEPT !.held = @ + 1]
            /\ UNCHANGED qrWait
            /\ life' = IF life = "live" THEN "closing" ELSE life
            /\ last' = [Done(sig) EXCEPT !.res = "awaiting destroy"]
            /\ UNCHANGED <<session, timers, restartWait, sends, lookups, now, proc,
                           cst, init, listeners, prevStarts, prevLive, phase,
                           relaunches>>

\* The destroy() awaited on the held client settles (a failure is caught and
\* logged) and the handler exits the process.
ShutdownResumed(sig, ok) ==
    /\ shutdownWait.held > 0
    /\ Exit(sig, IF ok THEN "destroyed" ELSE "destroy failed")

\* The same when a launch has replaced the client during the await: the
\* handler called destroy() on the client it found, not on the one held now.
ShutdownResumedLate(sig) ==
    /\ shutdownWait.replaced > 0
    /\ Exit(sig, IF life = "live" THEN "client left" ELSE "destroyed")

Next ==
    \/ \E k \in TimerKinds : FireTimer(k)
    \/ \E qr \in Codes : OnQr(qr)
    \/ OnReady
    \/ OnAuthFailure
    \/ OnDisconnected
    \/ OnError
    \/ \E ok \in BOOLEAN : InitSettled(ok)
    \/ \E ok \in BOOLEAN : PrevInitSettled(ok)
    \/ PrevDestroyed
    \/ HeldDestroyed
    \/ GetQr
    \/ \E valid \in BOOLEAN : SendMessage(valid)
    \/ \E r \in {"200", "500", "timeout"} : SendSettled(r)
    \/ Restart
    \/ \E ok \in BOOLEAN : RestartResumed(ok)
    \/ RestartResumedLate
    \/ Tick

Spec == Init /\ [][Next]_vars

\* The endpoints that only read the session or query the client, and the
\* process-level handlers, over a session driven by the timers and the
\* client alone.
ApiNext ==
    \/ \E k \in TimerKinds : FireTimer(k)
    \/ \E qr \in Codes : OnQr(qr)
    \/ OnReady
    \/ OnAuthFailure
    \/ OnDisconnected
    \/ OnError
    \/ \E ok \in BOOLEAN : InitSettled(ok)
    \/ \E ok \in BOOLEAN : PrevInitSettled(ok)
    \/ PrevDestroyed
    \/ HeldDestroyed
    \/ DestroyRejected
    \/ GetHealth
    \/ GetRoot
    \/ GetStatus
    \/ \E e \in LookupKinds : Lookup(e)
    \/ \E e \in LookupKinds, ok \in BOOLEAN : LookupSettled(e, ok)
    \/ Tick

ApiSpec == Init /\ [][ApiNext]_vars

\* The process with its signal handlers, over a session driven by the timers
\* and the client.
ShutdownNext ==
    \/ \E k \in TimerKinds : FireTimer(k)
    \/ \E qr \in Codes : OnQr(qr)
    \/ OnReady
    \/ OnAuthFailure
    \/ OnDisconnected
    \/ OnError
    \/ \E ok \in BOOLEAN : InitSettled(ok)
    \/ \E ok \in BOOLEAN : PrevInitSettled(ok)
    \/ PrevDestroyed
    \/ HeldDestroyed
    \/ \E sig \in Signals : Signal(sig)
    \/ \E sig \in Signals, ok \in BOOLEAN : ShutdownResumed(sig, ok)
    \/ \E sig \in Signals : ShutdownResumedLate(sig)
    \/ Tick

ShutdownSpec == Init /\ [][ShutdownNext]_vars

\* ================================================= src/unnamed/part_000
\* The variant for free hosting.  It has no initializationInProgress (the
\* variable stays FALSE), initializeWhatsApp neither removes the handlers of
\* the client it replaces nor destroys it, and the process registers no
\* handler for unhandledRejection or uncaughtException.  The handlers of qr,
\* ready, auth_failure and disconnected, the settlement of initialize(), the
\* endpoints up to their first await and the signal handlers do what those of
\* src/server.js do to the variables modelled here, and are shared.  FreeSpec
\* is the session under timers, client events and requests; it leaves out
\* the signal handlers and the endpoints that only read.
FreeInit == Init

Min(a, b) == IF a < b THEN a ELSE b

\* An exception no code catches, or a rejection no code handles: Node (18, the
\* version of the Dockerfile) prints it and ends the process with a failure code.
FreeCrash(why) ==
    /\ Gone
    /\ last' = [Done("crash") EXCEPT !.res = why]

\* initializeWhatsApp().  k: who called; t0: the pending timers once the
\* caller's timer is taken off; w: the waits on destroy().then(...) left;
\* heldLife: the state of the client held when it is called; ok: whether
\* `new Client(...)` returns (TRUE) or throws (FALSE).
\* The client replaced stays as it is, handlers registered: the model counts
\* the replaced clients that are live, up to MaxPrev (nothing destroys them).
FreeInitializeWhatsApp(k, t0, w, heldLife, ok) ==
    IF ok
    THEN /\ prevStarts + (IF init = "pending" THEN 1 ELSE 0) <= MaxPrev
         /\ restartWait.replaced + restartWait.held <= MaxRestarts
         /\ prevStarts' = prevStarts + (IF init = "pending" THEN 1 ELSE 0)
         /\ prevLive' = IF heldLife = "live" /\ listeners
                        THEN Min(prevLive + 1, MaxPrev) ELSE prevLive
         /\ restartWait' = [held |-> 0,
                            replaced |-> restartWait.replaced + restartWait.held]
         /\ shutdownWait' = [held |-> 0,
                             replaced |-> shutdownWait.replaced + shutdownWait.held]
         /\ qrWait' = [held |-> 0, replaced |-> w.replaced + w.held]
         /\ client' = Held
         /\ life' = "live"
         /\ listeners' = TRUE
         /\ cst' = "started"
         /\ init' = "pending"
         /\ timers' = t0
         /\ phase' = "Launching"
         /\ relaunches' = CountLaunch(k, t0, TRUE)
         /\ last' = [Done("initializeWhatsApp") EXCEPT
                       !.res = "launched", !.by = k, !.made = TRUE]
         /\ UNCHANGED <<isReady, qrCodeData, lastQrTime, initializationInProgress,
                        sends, lookups, now, proc>>
    ELSE FreeCrash("uncaught exception")

\* A setTimeout callback runs.  The one scheduled by GET /api/qr calls
\* client.destroy().then(() => initializeWhatsApp()) when a client is held.
FreeFireTimer(k) ==
    /\ timers[k] > 0
    /\ LET t0 == [timers EXCEPT ![k] = @ - 1]
       IN  IF k = "qr" /\ client # NoClient
           THEN /\ qrWait.held + qrWait.replaced < MaxQrWaits
                /\ qrWait' = [qrWait EXCEPT !.held = @ + 1]
                /\ life' = IF life = "live" THEN "closing" ELSE life
                /\ timers' = t0
                /\ relaunches' = CountLaunch(k, t0, FALSE)
                /\ last' = [Done("qr timer") EXCEPT !.res = "awaiting destroy", !.by = k]
                /\ UNCHANGED <<session, restartWait, shutdownWait, sends, lookups, now,
                               proc, cst, init, listeners, prevStarts, prevLive, phase>>
           ELSE \E ok \in BOOLEAN : FreeInitializeWhatsApp(k, t0, qrWait, life, ok)

\* The destroy() that a /api/qr timer called on the held client settles.
\* Fulfilled: the callback of then() runs initializeWhatsApp().  Rejected:
\* the promise that then() returned is rejected and nothing handles it.
FreeQrDestroySettled(ok) ==
    /\ qrWait.held > 0
    /\ IF ok
       THEN \E made \in BOOLEAN :
                FreeInitializeWhatsApp("qr", timers, [qrWait EXCEPT !.held = @ - 1],
                                       IF life = "closing" THEN "dead" ELSE life, made)
       ELSE FreeCrash("unhandled rejection")

\* The same when another launch has replaced the client meanwhile.
FreeQrDestroySettledLate(ok) ==
    /\ qrWait.replaced > 0
    /\ IF ok
       THEN \E made \in BOOLEAN :
                FreeInitializeWhatsApp("qr", timers, [qrWait EXCEPT !.replaced = @ - 1],
                                       life, made)
       ELSE FreeCrash("unhandled rejection")

\* A replaced client, still live with its handlers registered, delivers an
\* event: the handler does what it does for the held client.  (The model does
\* not record what a replaced client has delivered before.)
FreePrevOnQr(qr) ==
    /\ prevLive > 0
    /\ qrCodeData' = qr
    /\ lastQrTime' = now
    /\ phase' = "AwaitingPairing"
    /\ last' = [Done("qr") EXCEPT !.code = qr, !.at = now, !.by = "replaced"]
    /\ UNCHANGED <<client, isReady, initializationInProgress, timers, restartWait,
                   shutdownWait, qrWait, sends, lookups, now, proc, library, relaunches>>

FreePrevOnReady ==
    /\ prevLive > 0
    /\ isReady' = TRUE
    /\ qrCodeData' = NoCode
    /\ lastQrTime' = NoTime
    /\ phase' = "Ready"
    /\ last' = [Done("ready") EXCEPT !.by = "replaced"]
    /\ UNCHANGED <<client, initializationInProgress, timers, restartWait,
                   shutdownWait, qrWait, sends, lookups, now, proc, library, relaunches>>

FreePrevOnAuthFailure ==
    /\ prevLive > 0
    /\ PendingTimers(timers) < MaxTimers
    /\ isReady' = FALSE
    /\ timers' = setTimeout(timers, "retry")
    /\ phase' = "Failed"
    /\ last' = [Done("auth_failure") EXCEPT !.by = "replaced"]
    /\ UNCHANGED <<client, qrCodeData, lastQrTime, initializationInProgress, restartWait,
                   shutdownWait, qrWait, sends, lookups, now, proc, library, relaunches>>

FreePrevOnDisconnected ==
    /\ prevLive > 0
    /\ PendingTimers(timers) < MaxTimers
    /\ isReady' = FALSE
    /\ qrCodeData' = NoCode
    /\ timers' = setTimeout(timers, "retry")
    /\ phase' = "Failed"
    /\ last' = [Done("disconnected") EXCEPT !.by = "replaced"]
    /\ UNCHANGED <<client, lastQrTime, initializationInProgress, restartWait,
                   shutdownWait, qrWait, sends, lookups, now, proc, library, relaunches>>

\* GET /api/qr
FreeGetQr ==
    /\ proc = "running"
    /\ LET qrExpired == qrExpiredAt(now, lastQrTime)
       IN  IF qrCodeData # NoCode /\ ~qrExpired
           THEN /\ last' = IF lastQrTime = NoTime
                           THEN [Done("GET /api/qr") EXCEPT !.res = "500"]
                           ELSE [Done("GET /api/qr") EXCEPT
                                   !.res = "code", !.code = qrCodeData,
                                   !.age = now - lastQrTime,
                                   !.expiresAt = lastQrTime + QR_TTL_MS]
                /\ UNCHANGED <<session, timers, restartWait, shutdownWait, qrWait, sends,
                               lookups, now, proc, library, phase, relaunches>>
           ELSE IF isReady
           THEN /\ last' = [Done("GET /api/qr") EXCEPT !.res = "ready"]
                /\ UNCHANGED <<session, timers, restartWait, shutdownWait, qrWait, sends,
                               lookups, now, proc, library, phase, relaunches>>
           ELSE /\ last' = [Done("GET /api/qr") EXCEPT
                              !.res = IF qrExpired THEN "expired" ELSE "pending"]
                /\ IF qrExpired
                   THEN /\ PendingTimers(timers) < MaxTimers
                        /\ qrCodeData' = NoCode
                        /\ lastQrTime' = NoTime
                        /\ timers' = setTimeout(timers, "qr")
                        /\ UNCHANGED <<client, isReady, initializationInProgress>>
                   ELSE UNCHANGED <<session, timers>>
                /\ relaunches' =
                       IF qrExpired /\ qrCodeData # NoCode
                       THEN [relaunches EXCEPT
                               !.expiry = IF timers["qr"] = 0 THEN "none" ELSE "untracked"]
                       ELSE relaunches
                /\ UNCHANGED <<restartWait, shutdownWait, qrWait, sends, lookups, now, proc,
                               library, phase>>

\* POST /api/restart after `await client.destroy()`: the reset, or, when
\* destroy() rejected, the catch block and its status 500.
FreeRestartFailed ==
    /\ last' = [Done("POST /api/restart") EXCEPT !.res = "500"]
    /\ UNCHANGED <<session, timers, shutdownWait, qrWait, sends, lookups, now, proc,
                   cst, init, listeners, prevStarts, prevLive, phase, relaunches>>

FreeRestartResumed(ok) ==
    IF ok
    THEN RestartResumed(TRUE)
    ELSE /\ restartWait.held > 0
         /\ restartWait' = [restartWait EXCEPT !.held = @ - 1]
         /\ life' = IF life = "closing" THEN "live" ELSE life
         /\ FreeRestartFailed

FreeRestartResumedLate(ok) ==
    IF ok
    THEN RestartResumedLate
    ELSE /\ restartWait.replaced > 0
         /\ restartWait' = [restartWait EXCEPT !.replaced = @ - 1]
         /\ UNCHANGED life
         /\ FreeRestartFailed

\* POST /api/send-message and POST /api/restart up to their await are those
\* of src/server.js; the process answers them while it runs.
FreeSendMessage(valid) == proc = "running" /\ SendMessage(valid)

FreeRestart == proc = "running" /\ Restart

FreeNext ==
    \/ \E k \in TimerKinds : FreeFireTimer(k)
    \/ \E ok \in BOOLEAN : FreeQrDestroySettled(ok)
    \/ \E ok \in BOOLEAN : FreeQrDestroySettledLate(ok)
    \/ \E qr \in Codes : OnQr(qr)
    \/ OnReady
    \/ OnAuthFailure
    \/ OnDisconnected
    \/ \E qr \in Codes : FreePrevOnQr(qr)
    \/ FreePrevOnReady
    \/ FreePrevOnAuthFailure
    \/ FreePrevOnDisconnected
    \/ \E ok \in BOOLEAN : InitSettled(ok)
    \/ \E ok \in BOOLEAN : PrevInitSettled(ok)
    \/ FreeGetQr
    \/ \E valid \in BOOLEAN : FreeSendMessage(valid)
    \/ \E r \in {"200", "500"} : SendSettled(r)
    \/ FreeRestart
    \/ \E ok \in BOOLEAN : FreeRestartResumed(ok)
    \/ \E ok \in BOOLEAN : FreeRestartResumedLate(ok)
    \/ Tick

FreeSpec == FreeInit /\ [][FreeNext]_vars

\* The timer of the Promise.race is a Node timer: it fires 30 s after the
\* handler was suspended, whatever the client does.
SendSpec == Spec /\ WF_vars(SendSettled("timeout"))

\* Node runs the callback of a pending timer once its delay has passed.  Only
\* the timers of the failure handlers are required to fire.
TimerSpec == Spec /\ WF_vars(FireTimer("retry"))

\* ================================================================ claims

\* Clients whose initialize() promise has not settled.
StartsInFlight == (IF init = "pending" THEN 1 ELSE 0) + prevStarts

\* C1: at every instant at most one client.initialize() is in flight.
C1_OneStartInFlight == StartsInFlight <= 1

\* C2: a call of initializeWhatsApp made while initializationInProgress is
\* true is a no-op: it destroys and constructs no client, starts nothing,
\* schedules no timer (the timer that called is gone, no other is added) and
\* leaves client, isReady, qrCodeData, lastQrTime and
\* initializationInProgress unchanged.
C2_GuardedCallIsNoOp ==
    [][\A k \in TimerKinds :
          (initializationInProgress /\ FireTimer(k)) =>
              /\ UNCHANGED <<session, library>>
              /\ timers' = [timers EXCEPT ![k] = @ - 1]]_vars

C2_Witness ==
    /\ last.op = "initializeWhatsApp"
    /\ last.res = "skipped"
    /\ client # NoClient
    /\ initializationInProgress

\* C3: GET /api/qr never returns a pairing code issued more than 120 s
\* before the request.
C3_NoStaleCode ==
    (last.op = "GET /api/qr" /\ last.res = "code") => last.age <= QR_TTL_MS

C3_Witness ==
    /\ last.op = "GET /api/qr"
    /\ last.res = "code"
    /\ last.age = QR_TTL_MS

\* C4: GET /api/qr on a held code older than 120 s answers "expired", sets
\* qrCodeData and lastQrTime to null and schedules a relaunch; the GET /api/qr
\* calls from that expiry on cause no more than one client launch in total.
C4_ExpiryRelaunchesOnce ==
    /\ (last.op = "GET /api/qr" /\ last.res = "expired") =>
           (qrCodeData = NoCode /\ lastQrTime = NoTime /\ timers["qr"] >= 1)
    /\ relaunches.expiry # "two"

\* The held client is a live client that has emitted ready.
HeldClientReady == client # NoClient /\ life = "live" /\ cst = "ready"

\* C5: POST /api/send-message issued while the held client is not a live
\* client that has emitted ready answers 503, does not call
\* client.sendMessage and changes no session variable.
C5_NotReadySendRejected ==
    [][\A valid \in BOOLEAN :
          (SendMessage(valid) /\ ~HeldClientReady) =>
              /\ last'.res = "503"
              /\ last'.sentTo = NoClient
              /\ UNCHANGED <<session, sends>>]_vars

\* C6 (its safety half): once POST /api/restart has been entered the session
\* is reset: isReady false, qrCodeData and lastQrTime null,
\* initializationInProgress false, phase Uninitialized; no request meets the
\* state from before the restart.
C6_RestartResetsAtOnce ==
    last.op = "POST /api/restart" =>
        /\ ~isReady
        /\ qrCodeData = NoCode
        /\ lastQrTime = NoTime
        /\ ~initializationInProgress
        /\ phase = "Uninitialized"

\* Clients constructed whose destruction has not completed.
LiveHandles == (IF life \in {"live", "closing"} THEN 1 ELSE 0) + prevLive

\* C7: at no instant do two live client handles exist: the destruction of
\* the previous client has completed before the next one is constructed.
C7_OneLiveHandle == LiveHandles <= 1

\* C8: of the relaunch timers of restart requests that arrived before the
\* first of these timers fired, only one constructs and starts a client.
C8_OneLaunchPerRestarts == relaunches.restart # "two"

\* The held client is live and awaiting pairing or Ready.
HeldClientPairingOrReady ==
    client # NoClient /\ life = "live" /\ cst \in {"pairing", "ready"}

\* C9: a relaunch timer never destroys or replaces a held client that is
\* awaiting pairing or Ready.
C9_TimerSparesWorkingClient ==
    [][\A k \in TimerKinds :
          (FireTimer(k) /\ HeldClientPairingOrReady) =>
              (~last'.made /\ life' = "live" /\ cst' = cst)]_vars

\* C10: a pairing code is held exactly when the phase is AwaitingPairing.
C10_CodeIffAwaitingPairing ==
    (qrCodeData # NoCode) <=> (phase = "AwaitingPairing")

\* C11: lastQrTime is non-null exactly when qrCodeData is non-null.
C11_TimeIffCode == (lastQrTime # NoTime) <=> (qrCodeData # NoCode)

\* C12: GET /api/qr handled right after a qr event carrying code X answers
\* with exactly X and with the expiry instant of the event's time plus 120 s.
C12_QrThenGetRoundTrip ==
    [][(last.op = "qr" /\ last.at = now /\ GetQr) =>
          /\ last'.res = "code"
          /\ last'.code = last.code
          /\ last'.expiresAt = last.at + QR_TTL_MS]_vars

C12_Witness ==
    /\ last.op = "GET /api/qr"
    /\ last.res = "code"
    /\ last.code = 2
    /\ last.age = 0
    /\ now > 0

\* C13: a POST /api/send-message accepted while isReady is answered even if
\* client.sendMessage never settles: the suspended handler is resumed, and
\* when the 30 s timer wins the caller gets the timeout failure while the
\* session and the phase stay as they are.
C13_SendAlwaysAnswered ==
    /\ (sends > 0) ~> (last.op = "send-message result")
    /\ [][SendSettled("timeout") =>
            (last'.res = "timeout" /\ UNCHANGED <<session, phase>>)]_vars

C13_Witness ==
    /\ last.op = "send-message result"
    /\ last.res = "timeout"
    /\ isReady
    /\ phase = "Ready"
    /\ sends = 0

\* C14: a POST /api/send-message that fails, by the timeout or by a failure of
\* client.sendMessage, returns the failure, leaves client, isReady,
\* qrCodeData, lastQrTime and initializationInProgress unchanged and
\* schedules no relaunch.
C14_FailedSendChangesNothing ==
    [][\A r \in {"500", "timeout"} :
          SendSettled(r) =>
              /\ last'.op = "send-message result"
              /\ last'.res = r
              /\ UNCHANGED <<session, timers>>]_vars

C14_Witness ==
    /\ last.op = "send-message result"
    /\ last.res = "500"
    /\ isReady
    /\ PendingTimers(timers) = 0

\* A launch has begun: initializeWhatsApp ran past its guard (the
\* construction of the client may still throw, which schedules a retry).
LaunchBegun ==
    last.op = "initializeWhatsApp" /\ last.res \in {"launched", "create_failed"}

\* C15: Failed is never terminal: while the phase is Failed (entered by a
\* start failure, auth_failure or disconnected) a relaunch timer is pending,
\* and with every pending timer firing a launch eventually begins.
C15_FailedAlwaysRetries ==
    /\ [](phase = "Failed" => PendingTimers(timers) > 0)
    /\ (phase = "Failed") ~> LaunchBegun

C15_Witness ==
    /\ last.op = "initializeWhatsApp"
    /\ last.res = "launched"
    /\ last.by = "retry"
    /\ phase = "Launching"

\* C16: no failure of the client (a rejection of or an exception from
\* initialize, destroy, sendMessage, getNumberId or getChats) terminates the
\* process: the process is never ended by a rejection of one of these calls
\* that nothing handles.
C16_ClientFailureNeverEndsProcess ==
    ~(proc = "exited" /\ last.op = "crash" /\ last.res = "unhandled rejection")

\* C17: while the session is Ready (isReady, which is what /health and
\* /api/status report as ready), GET /api/qr answers that the session is
\* already connected and returns no pairing code.
C17_ReadyGetsNoCode ==
    [][(isReady /\ GetQr) => (last'.res = "ready" /\ last'.code = NoCode)]_vars

\* A step in which initializeWhatsApp is entered past its guard or skipped.
CallsInitializeWhatsApp ==
    \/ ~initializationInProgress /\ initializationInProgress'
    \/ last'.op = "initializeWhatsApp" /\ last' # last

\* C18: initializeWhatsApp is only ever run by the callback of a one-shot
\* timer with a positive fixed delay: every step that runs it takes one
\* pending timer off (and at most schedules the next retry); no event,
\* failure or request handler runs it directly.
C18_LaunchOnlyFromTimers ==
    /\ \A k \in TimerKinds : \A d \in Delays[k] : d > 0
    /\ [][CallsInitializeWhatsApp =>
            \E k \in TimerKinds :
                /\ timers[k] > 0
                /\ LET t0 == [timers EXCEPT ![k] = @ - 1]
                   IN  timers' = t0 \/ timers' = setTimeout(t0, "retry")]_vars

C18_Witness ==
    /\ last.op = "initializeWhatsApp"
    /\ last.res = "launched"
    /\ last.by = "qr"
    /\ phase = "Launching"
    /\ prevStarts = 0

\* C19: GET /health, GET / and GET /api/status leave client, isReady,
\* qrCodeData, lastQrTime and initializationInProgress unchanged and schedule
\* no timer, and /health reports ready equal to isReady.
C19_ReadOnlyEndpoints ==
    [][/\ (GetHealth \/ GetRoot \/ GetStatus) => UNCHANGED <<session, timers>>
       /\ GetHealth => (last'.op = "GET /health" /\ last'.ready = isReady)]_vars

C19_Witness ==
    /\ last.op = "GET /health"
    /\ last.ready
    /\ isReady
    /\ PendingTimers(timers) > 0

\* C20: on SIGINT or SIGTERM the held client is destroyed before the process
\* exits (destroy() has been called on it and has settled, even with a
\* failure): the process never exits leaving a held client it has not
\* tried to destroy.
C20_ExitDestroysHeldClient ==
    (proc = "exited" /\ last.op = "exit") => last.res # "client left"

\* C21: from the launch of a new client (phase Launching) until that client
\* emits qr or ready, isReady is false and no pairing code is held.
C21_LaunchingHoldsNothing ==
    phase = "Launching" => (~isReady /\ qrCodeData = NoCode)

\* C22: POST /api/restart completes its reset even when the destroy() it
\* awaits fails: isReady becomes false, qrCodeData and lastQrTime become
\* null, a relaunch timer is scheduled and the answer is a success (here for
\* src/unnamed/part_000).
C22_RestartResetsDespiteFailure ==
    [][(FreeRestartResumed(FALSE) \/ FreeRestartResumedLate(FALSE)) =>
          /\ last'.op = "POST /api/restart"
          /\ last'.res = "200"
          /\ ~isReady'
          /\ qrCodeData' = NoCode
          /\ lastQrTime' = NoTime
          /\ timers' = setTimeout(timers, "restart")]_vars

\* C23: in src/server.js a failure of the destroy() that initializeWhatsApp
\* calls on the client it replaces is logged and goes no further: the process
\* keeps running, no session state and no timer changes, and the new client
\* has been constructed, subscribed and started all the same.
C23_CleanupFailureContained ==
    /\ prevLive > 0 => (client = Held /\ init # "idle")
    /\ [][DestroyRejected =>
            /\ proc' = "running"
            /\ last'.op = "unhandledRejection"
            /\ UNCHANGED <<session, timers, library>>]_vars

C23_Witness ==
    /\ last.op = "unhandledRejection"
    /\ proc = "running"
    /\ prevLive > 0
    /\ client = Held /\ life = "live" /\ listeners /\ init = "pending"

\* C24: GET /api/qr changes session state or schedules a timer only when a
\* pairing code is held and its 120-second window has expired.
C24_QrRelaunchOnlyOnExpiry ==
    [][GetQr => \/ qrCodeData # NoCode /\ qrExpiredAt(now, lastQrTime)
                \/ UNCHANGED <<session, timers>>]_vars

\* C25: POST /api/send-message whose number or message is missing or empty,
\* issued while the session is ready, is answered 400 without a call of
\* sendMessage and without a change of session state; while the session is
\* not ready the answer is 503 whatever the body holds.
C25_InvalidRequestAfterNotReady ==
    [][\A number \in Numbers, message \in Messages :
          PostSendMessage(number, message) =>
             /\ ~isReady => last'.res = "503"
             /\ (isReady /\ (number \in {Absent, ""} \/ message \in {Absent, ""})) =>
                   (last'.res = "400" /\ last'.sentTo = NoClient)
             /\ last'.res \in {"503", "400"} => UNCHANGED <<session, timers, sends>>]_vars

C25_Witness ==
    /\ last.op = "POST /api/send-message"
    /\ last.res = "400"
    /\ isReady
    /\ sends = 0

\* C26: in src/unnamed/part_000 a relaunch made by a retry timer (after
\* auth_failure, disconnected or a failed start) or by the boot timer leaves
\* no replaced client live with its handlers registered: the new client is
\* the only live one.
C26_FreeRelaunchDestroysPrevious ==
    (last.op = "initializeWhatsApp" /\ last.res = "launched"
        /\ last.by \in {"boot", "retry"}) => prevLive = 0

\* C27: in src/server.js, whenever isReady is true the held client is live
\* and is the client that emitted ready.
C27_ReadyMeansHeldClientReady ==
    isReady => HeldClientReady

\* C28: in src/server.js a pairing code returned by GET /api/qr was emitted
\* by the held client; in particular none is returned while the held client
\* has just been launched and has emitted nothing (the code held then was
\* issued by a client that initializeWhatsApp has replaced).
C28_CodeIsOfHeldClient ==
    [][(GetQr /\ last'.res = "code") =>
          ~(phase = "Launching" /\ cst = "started")]_vars

\* C29: in src/server.js, once a client has been replaced, the completion or
\* failure of its still pending initialize() call changes none of isReady,
\* qrCodeData, lastQrTime, initializationInProgress and schedules no relaunch.
C29_ReplacedClientIsMute ==
    [][\A ok \in BOOLEAN :
          PrevInitSettled(ok) => UNCHANGED <<session, timers>>]_vars

\* C30: in src/server.js the session never gets stuck: from every state where
\* isReady is false, no pairing code is held and no relaunch timer is pending,
\* the launch in flight produces an event or a failure, so that the session
\* becomes ready, holds a code or has a relaunch timer pending.
C30_NeverStuck ==
    (~isReady /\ qrCodeData = NoCode /\ PendingTimers(timers) = 0)
        ~> (isReady \/ qrCodeData # NoCode \/ PendingTimers(timers) > 0)

====
